---- MODULE Spec2Model ----
(***************************************************************************)
(* Model of mcp_run.client.Client: the install cache, the plugin cache and *)
(* the per-profile revalidation token (last_installations_request), with   *)
(* the operations that read and write them: list_installs / installs,      *)
(* plugin, call_tool, clear_cache, set_profile, install and uninstall.     *)
(* The registry (Gateway) and the wall clock are the environment.          *)
(***************************************************************************)
EXTENDS Integers, Sequences, FiniteSets, TLC

(***************************************************************************)
(* Bounds of the model.                                                    *)
(***************************************************************************)
MaxHeld == 1        \* Servlets only the caller still refers to, between operations

(***************************************************************************)
(* Program constant: timedelta(minutes=4, seconds=30), in seconds.         *)
(***************************************************************************)
TTL == 270

\* Readings of datetime.now(), in seconds, around the TTL boundary.
Instants == {0, TTL - 1, TTL}

Profiles == {"A", "B"}
\* Order of the entries in the "installs" array of a list response.
NameOrder == <<"n1", "n2">>
Names == {NameOrder[i] : i \in 1..Len(NameOrder)}

\* None, for an object reference (identities start at 1) and for the token.
None == 0

(***************************************************************************)
(* What the registry installs under a name in a profile: the wire fields   *)
(* the client consumes (servlet.has_client, settings.permissions present   *)
(* or not, the tool names of servlet.meta.schema) and settings.config: of  *)
(* that mapping the model keeps the value under the key that the OAuth     *)
(* info names (config_name), "None" when settings has no "config" at all.  *)
(***************************************************************************)
Catalog(profile, name) ==
  IF profile = "A" /\ name = "n1"
    THEN [has_client |-> TRUE,  permissions |-> TRUE,  tools |-> <<"t1", "t2">>,
          config |-> "old"]
  ELSE IF profile = "A"
    THEN [has_client |-> FALSE, permissions |-> TRUE,  tools |-> <<"t2">>,
          config |-> "None"]
  ELSE IF name = "n1"
    THEN [has_client |-> FALSE, permissions |-> TRUE,  tools |-> <<"t1">>,
          config |-> "old"]
  ELSE   [has_client |-> FALSE, permissions |-> FALSE, tools |-> <<"t2">>,
          config |-> "None"]

VARIABLES
  now,                          \* datetime.now()
  config_profile,               \* self.config.profile
  heap,                         \* the live Servlet objects, by identity
  plugins,                      \* the live InstalledPlugin objects, by identity
  install_cache,                \* self.install_cache (dict, insertion ordered)
  plugin_cache,                 \* self.plugin_cache (dict)
  last_installations_request,   \* self.last_installations_request
  ret,                          \* what the last client operation did and returned
  calls                         \* the plugin() calls that threads are running

vars == <<now, config_profile, heap, plugins, install_cache,
          plugin_cache, last_installations_request, ret, calls>>

(***************************************************************************)
(* Python dict, as the sequence of its items in insertion order.           *)
(***************************************************************************)
DictHas(d, k) == \E i \in 1..Len(d) : d[i].k = k

DictGet(d, k) ==
  IF DictHas(d, k) THEN d[CHOOSE i \in 1..Len(d) : d[i].k = k].v ELSE None

DictSet(d, k, v) ==
  IF DictHas(d, k)
    THEN [i \in 1..Len(d) |-> IF d[i].k = k THEN [k |-> k, v |-> v] ELSE d[i]]
    ELSE Append(d, [k |-> k, v |-> v])

DictDel(d, k) == SelectSeq(d, LAMBDA e : e.k # k)

DictValues(d) == [i \in 1..Len(d) |-> d[i].v]

(***************************************************************************)
(* Objects: a heap maps the identities of the live objects to their        *)
(* fields.  A new object gets an identity no live object has; an object    *)
(* nothing refers to any more is dropped when the operation returns, so an *)
(* identity is never shared by two objects an operation can see.           *)
(***************************************************************************)
NewId(h) ==
  CHOOSE i \in 1..(Cardinality(DOMAIN h) + 1) :
    i \notin DOMAIN h /\ \A j \in 1..(i - 1) : j \in DOMAIN h

New(h, obj) == [i \in DOMAIN h \cup {NewId(h)} |-> IF i \in DOMAIN h THEN h[i] ELSE obj]

Range(q) == {q[i] : i \in 1..Len(q)}

(***************************************************************************)
(* The result of the operation in progress, until the caller takes it:     *)
(*   op, outcome   the operation, and "ok" or the error it raised          *)
(*   net           the Gateway requests it issued, in order                *)
(*   status, listed, complete                                              *)
(*                 list_installs: the status of the list response, the     *)
(*                 Servlets yielded, whether the generator ran to its end  *)
(*   install, cache_ok, cached, value                                      *)
(*                 plugin: its argument, its cache_ok, what it read from   *)
(*                 plugin_cache (None: nothing, or it did not look) and    *)
(*                 the InstalledPlugin it returned                         *)
(*   functions, wasm, token                                                *)
(*                 plugin: the extras it was given and the access token it *)
(*                 fetched ("None": none)                                  *)
(*   cache         plugin, call_tool: the cache argument of plugin()       *)
(*   tool          call_tool, tool: the tool name it was given ("None": a  *)
(*                 Tool object); tool leaves the owner of the Tool it      *)
(*                 returns in install                                      *)
(*   tools         tools: the dict it returned, from each tool name to the *)
(*                 Servlet of the Tool under that name                     *)
(*   profile       list_installs: the profile it asked the Gateway for     *)
(*   explicit      install, uninstall: a profile argument was given        *)
(*   changed       set_profile: the profile differs from the configured    *)
(***************************************************************************)
NoRet ==
  [op |-> "init", outcome |-> "ok", net |-> <<>>, status |-> 0,
   listed |-> <<>>, complete |-> FALSE, install |-> None, cache_ok |-> FALSE,
   cached |-> None, value |-> None, explicit |-> FALSE, changed |-> FALSE,
   functions |-> "None", wasm |-> "None", token |-> "None", tool |-> "None",
   profile |-> "None", cache |-> FALSE, tools |-> <<>>]

Ret(op, outcome, net) == [NoRet EXCEPT !.op = op, !.outcome = outcome, !.net = net]

(***************************************************************************)
(* Client._fix_profile(profile) with user=False: None is the configured    *)
(* profile.                                                                *)
(***************************************************************************)
FixProfile(profile) == IF profile = "None" THEN config_profile ELSE profile

(***************************************************************************)
(* The Gateway's answers to GET installations(profile) carrying the header *)
(* if-modified-since: last (None: no header): an error status, 301 ("no    *)
(* changes", only to a request that carries the header) or 200 with the    *)
(* profile's installs and a Date.  What is installed is the registry's     *)
(* business: any set of names, listed in NameOrder.                        *)
(***************************************************************************)
InstallLists(names) ==
  {SelectSeq(NameOrder, LAMBDA n : n \in on) : on \in SUBSET names}

Installs(profile, on) ==
  [i \in 1..Len(on) |-> [name |-> on[i], servlet |-> Catalog(profile, on[i])]]

Date == 1

Responses(names, profile, last) ==
  {[status |-> 500, installs |-> <<>>, Date |-> None]}
  \cup (IF last # None THEN {[status |-> 301, installs |-> <<>>, Date |-> Date]}
                       ELSE {})
  \cup {[status |-> 200, installs |-> Installs(profile, on), Date |-> Date] :
          on \in InstallLists(names)}

(***************************************************************************)
(* Servlet(...) as list_installs constructs it from one entry of the       *)
(* response; content is unset until plugin() fetches it.                   *)
(***************************************************************************)
Servlet(install) ==
  [name |-> install.name,
   has_oauth |-> install.servlet.has_client,
   permissions |-> install.servlet.permissions,
   tools |-> install.servlet.tools,
   config |-> install.servlet.config,
   content |-> "None"]

(***************************************************************************)
(* The body of the loop `for install in data["installs"]`, run for the     *)
(* first k entries: each entry becomes a new Servlet stored under its name *)
(* and the plugin cached under that name is deleted.                       *)
(***************************************************************************)
\* A variant of StoreInstall that leaves the cached plugin in place.
StoreInstallKeepingPlugin(s, install) ==
  LET id == NewId(s.heap)
  IN  [heap |-> New(s.heap, Servlet(install)),
       install_cache |-> DictSet(s.install_cache, install.name, id),
       plugin_cache |-> s.plugin_cache,
       listed |-> Append(s.listed, id)]

StoreInstall(s, install) ==
  LET id == NewId(s.heap)
  IN  [heap |-> New(s.heap, Servlet(install)),
       install_cache |-> DictSet(s.install_cache, install.name, id),
       plugin_cache |-> DictDel(s.plugin_cache, install.name),
       listed |-> Append(s.listed, id)]

RECURSIVE StoreInstalls(_, _, _)
StoreInstalls(data, k, s) ==
  IF k = 0 THEN s ELSE StoreInstall(StoreInstalls(data, k - 1, s), data[k])

(***************************************************************************)
(* Client.list_installs(profile), a generator of which the caller takes    *)
(* `take` items (Client.installs takes all of them).  res is the Gateway's *)
(* response.                                                               *)
(***************************************************************************)
\* The first n items of a sequence.
Taken(q, take) == SubSeq(q, 1, IF take < Len(q) THEN take ELSE Len(q))

\* A variant of NoChanges that also empties plugin_cache.
NoChangesDroppingPlugins(s, base, take) ==
  LET vals == DictValues(s.install_cache)
  IN  [s EXCEPT !.plugin_cache = <<>>,
                !.ret = [base EXCEPT !.listed = Taken(vals, take),
                                     !.complete = (take >= Len(vals))]]

\* status 301, "No changes since": the cached Servlets are yielded.
NoChanges(s, base, take) ==
  LET vals == DictValues(s.install_cache)
  IN  [s EXCEPT !.ret = [base EXCEPT !.listed = Taken(vals, take),
                                     !.complete = (take >= Len(vals))]]

\* Otherwise the Date of the response is stored and its installs are.
Changes(s, base, take, p, res) ==
  LET data == Taken(res.installs, take)
      t == StoreInstalls(data, Len(data),
             [heap |-> s.heap, install_cache |-> s.install_cache,
              plugin_cache |-> s.plugin_cache, listed |-> <<>>])
  IN  [s EXCEPT !.heap = t.heap,
                !.install_cache = t.install_cache,
                !.plugin_cache = t.plugin_cache,
                !.last_installations_request = [@ EXCEPT ![p] = res.Date],
                !.ret = [base EXCEPT !.listed = t.listed,
                                     !.complete = (take >= Len(res.installs))]]

\* The request: if-modified-since is sent when a Date is stored for the profile.
ListRequest(last) == IF last # None THEN "list_cond" ELSE "list"

ListInstallsStep(op, profile, take, res, s) ==
  LET p == FixProfile(profile)
      last == s.last_installations_request[p]
      base == [NoRet EXCEPT !.op = op, !.net = <<ListRequest(last)>>,
                            !.status = res.status, !.profile = p]
  IN  IF res.status >= 400
        THEN [s EXCEPT !.ret = [base EXCEPT !.outcome = "http_error"]]
      ELSE IF res.status = 301 THEN NoChanges(s, base, take)
      ELSE Changes(s, base, take, p, res)

(***************************************************************************)
(* Threads that call plugin() concurrently.  A call is at one of the       *)
(* statements of plugin() that read or write the client's state, with the  *)
(* locals it has so far: install, oauth, cached and the instance p.        *)
(***************************************************************************)
Threads == {1, 2}

Idle ==
  [pc |-> "idle", install |-> None, oauth |-> "None", cached |-> None,
   p |-> None, outcome |-> "ok"]

NoCalls == [t \in Threads |-> Idle]

\* The client's state as one value, for the operations that call each other.
Self ==
  [heap |-> heap, plugins |-> plugins, install_cache |-> install_cache,
   plugin_cache |-> plugin_cache,
   last_installations_request |-> last_installations_request,
   ret |-> ret]

\* An operation starts when the previous one has returned; it leaves its
\* result in ret.
Commit(s) ==
  /\ ret = NoRet
  /\ calls = NoCalls
  /\ calls' = calls
  /\ heap' = s.heap
  /\ plugins' = s.plugins
  /\ install_cache' = s.install_cache
  /\ plugin_cache' = s.plugin_cache
  /\ last_installations_request' = s.last_installations_request
  /\ ret' = s.ret

ListInstalls(profile, take, res) ==
  /\ res.status = 301 => last_installations_request[FixProfile(profile)] # None
  /\ Commit(ListInstallsStep("list_installs", profile, take, res, Self))
  /\ UNCHANGED <<now, config_profile>>

(***************************************************************************)
(* Client.plugin(install, cache, wasi, functions, wasm).                   *)
(* functions and wasm are None, an empty list or a non-empty list.         *)
(* fault names the one request of the operation that the Gateway or the    *)
(* Runtime fails ("none": all succeed); a failure ends the operation, so   *)
(* one fault per operation covers every behaviour.                         *)
(***************************************************************************)
Faults == {"none", "oauth", "content", "call"}

ArgKinds == {"None", "empty", "some"}

\* A variant of CacheOk that looks at the cache argument only.
CacheOkIgnoringExtras(cache, functions, wasm) == cache

\* cache_ok = cache and wasi and functions is None and wasm is None,
\* where wasi = wasi or True is always True.
CacheOk(cache, functions, wasm) == cache /\ functions = "None" /\ wasm = "None"

\* Variants of Fresh: an entry that expires one second early, and an entry
\* that is still served at the age of exactly the TTL.
FreshShort(timestamp, t) == timestamp + TTL > t + 1

FreshInclusive(timestamp, t) == timestamp + TTL >= t

\* cached._timestamp + timedelta(minutes=4, seconds=30) > datetime.now()
Fresh(timestamp, t) == timestamp + TTL > t

\* InstalledPlugin(install, ext.Plugin(manifest, ...)): the instance records
\* the Servlet it was built from and the time of its construction; config is
\* what the manifest it was built with has under config_name.
InstalledPlugin(install, t, config) ==
  [install |-> install, timestamp |-> t, config |-> config]

\* A variant of NeedsFetch: the content is fetched on every build.
NeedsFetchAlways(install) == TRUE

\* if install.content is None
NeedsFetch(install) == install.content = "None"

\* A variant of ManifestConfig: a value that settings.config already has
\* under config_name is kept.
ManifestConfigKeeping(install, oauth) ==
  IF install.config # "None" THEN install.config
  ELSE IF oauth # "None" THEN oauth ELSE "unset"

\* manifest["config"] = install.settings.get("config", {}), then
\* manifest["config"][oauth["config_name"]] = oauth["access_token"] when
\* OAuth info was fetched: what the manifest has under config_name ("unset":
\* nothing).  oauth is the access token, "None" when none was fetched.
ManifestConfig(install, oauth) ==
  IF oauth # "None" THEN oauth
  ELSE IF install.config = "None" THEN "unset" ELSE install.config

\* manifest["config"] is the very mapping install.settings["config"] when
\* settings has one (get returns it, not a copy), so the assignment of the
\* access token is an assignment into the Servlet's settings.
SettingsConfig(install, oauth) ==
  IF oauth # "None" /\ install.config # "None" THEN oauth ELSE install.config

\* A variant of RuntimeOk: the Runtime instantiates whatever it is given.
RuntimeAcceptsAll(content) == TRUE

\* ext.Plugin(manifest, ...) instantiates only a valid Wasm module.
RuntimeOk(content) == content = "wasm"

\* res.content of GET content(content_addr): the module, or the body of an
\* error response (the code does not call raise_for_status here).
ContentBody(content_ok) == IF content_ok THEN "wasm" ELSE "errbody"

PluginStep(op, r, cache, functions, wasm, fault, tok, s) ==
  LET install == s.heap[r]
      oauth_ok == fault # "oauth"
      content_ok == fault # "content"
      oauth == IF install.has_oauth THEN tok ELSE "None"
      cache_ok == CacheOk(cache, functions, wasm)
      net0 == s.ret.net
      net1 == IF install.has_oauth THEN Append(net0, "oauth") ELSE net0
      cached == IF cache_ok THEN DictGet(s.plugin_cache, install.name) ELSE None
      base == [s.ret EXCEPT !.op = op, !.install = r, !.cache_ok = cache_ok,
                            !.cached = cached, !.functions = functions,
                            !.wasm = wasm, !.token = oauth, !.cache = cache]
      hit == cached # None /\ Fresh(s.plugins[cached].timestamp, now)
      \* the expired entry is deleted
      pc1 == IF cached # None THEN DictDel(s.plugin_cache, install.name)
                              ELSE s.plugin_cache
      fetch == NeedsFetch(install)
      net2 == IF fetch THEN Append(net1, "content") ELSE net1
      content == IF fetch THEN ContentBody(content_ok) ELSE install.content
      heap1 == [s.heap EXCEPT ![r].content = content]
      heap2 == [heap1 EXCEPT ![r].config = SettingsConfig(install, oauth)]
      id == NewId(s.plugins)
  IN  IF install.has_oauth /\ ~oauth_ok
        THEN [s EXCEPT !.ret = [base EXCEPT !.outcome = "http_error", !.net = net1,
                                            !.cached = None, !.token = "None"]]
      ELSE IF hit
        THEN [s EXCEPT !.ret = [base EXCEPT !.outcome = "ok", !.net = net1,
                                            !.value = cached]]
      ELSE IF ~install.permissions
        THEN [s EXCEPT !.heap = heap1, !.plugin_cache = pc1,
                       !.ret = [base EXCEPT !.outcome = "key_error", !.net = net2]]
      ELSE IF ~RuntimeOk(content)
        THEN [s EXCEPT !.heap = heap2, !.plugin_cache = pc1,
                       !.ret = [base EXCEPT !.outcome = "runtime_error", !.net = net2]]
      ELSE [s EXCEPT !.heap = heap2,
                     !.plugins = New(s.plugins,
                                   InstalledPlugin(r, now, ManifestConfig(install, oauth))),
                     !.plugin_cache = IF cache_ok THEN DictSet(pc1, install.name, id)
                                                  ELSE pc1,
                     !.ret = [base EXCEPT !.outcome = "ok", !.net = net2,
                                          !.value = id]]

Plugin(r, cache, functions, wasm, fault, tok) ==
  /\ r \in DOMAIN heap
  /\ Commit(PluginStep("plugin", r, cache, functions, wasm, fault, tok, Self))
  /\ UNCHANGED <<now, config_profile>>

(***************************************************************************)
(* Client.plugin(install) with the default arguments (cache_ok is True),   *)
(* run by a thread t, one statement that reads or writes the client's      *)
(* state at a time; the Gateway answers every request.                     *)
(***************************************************************************)
Shared == <<now, config_profile, install_cache, last_installations_request, ret>>

\* The call starts: the OAuth info is fetched when install.has_oauth.
ObtainBegin(t, r, tok) ==
  /\ ret = NoRet
  /\ calls[t].pc = "idle"
  /\ r \in DOMAIN heap
  /\ calls' = [calls EXCEPT ![t] =
                 [Idle EXCEPT !.pc = "lookup", !.install = r,
                              !.oauth = IF heap[r].has_oauth THEN tok ELSE "None"]]
  /\ UNCHANGED <<heap, plugins, plugin_cache>>
  /\ UNCHANGED Shared

\* cached = self.plugin_cache.get(install.name) and the test of its age.
ObtainLookup(t) ==
  LET cached == DictGet(plugin_cache, heap[calls[t].install].name)
  IN  /\ calls[t].pc = "lookup"
      /\ calls' = [calls EXCEPT ![t] =
                     IF cached = None THEN [@ EXCEPT !.pc = "fetch"]
                     ELSE IF Fresh(plugins[cached].timestamp, now)
                       THEN [@ EXCEPT !.pc = "done", !.cached = cached, !.p = cached]
                     ELSE [@ EXCEPT !.pc = "evict", !.cached = cached]]
      /\ UNCHANGED <<heap, plugins, plugin_cache>>
      /\ UNCHANGED Shared

\* del self.plugin_cache[install.name]: KeyError when the key is not there.
ObtainEvict(t) ==
  LET name == heap[calls[t].install].name
  IN  /\ calls[t].pc = "evict"
      /\ IF DictHas(plugin_cache, name)
           THEN /\ plugin_cache' = DictDel(plugin_cache, name)
                /\ calls' = [calls EXCEPT ![t].pc = "fetch"]
           ELSE /\ plugin_cache' = plugin_cache
                /\ calls' = [calls EXCEPT ![t].pc = "done",
                                          ![t].outcome = "key_error"]
      /\ UNCHANGED <<heap, plugins>>
      /\ UNCHANGED Shared

\* if install.content is None: the content request is sent.
ObtainFetch(t) ==
  /\ calls[t].pc = "fetch"
  /\ calls' = [calls EXCEPT ![t].pc =
                 IF NeedsFetch(heap[calls[t].install]) THEN "store" ELSE "build"]
  /\ UNCHANGED <<heap, plugins, plugin_cache>>
  /\ UNCHANGED Shared

\* install.content = res.content
ObtainStore(t) ==
  /\ calls[t].pc = "store"
  /\ heap' = [heap EXCEPT ![calls[t].install].content = ContentBody(TRUE)]
  /\ calls' = [calls EXCEPT ![t].pc = "build"]
  /\ UNCHANGED <<plugins, plugin_cache>>
  /\ UNCHANGED Shared

\* perm = install.settings["permissions"], the manifest and
\* p = InstalledPlugin(install, ext.Plugin(manifest, ...)).
ObtainBuild(t) ==
  LET r == calls[t].install
      install == heap[r]
      aliased == [heap EXCEPT ![r].config = SettingsConfig(install, calls[t].oauth)]
  IN  /\ calls[t].pc = "build"
      /\ IF ~install.permissions
           THEN /\ calls' = [calls EXCEPT ![t].pc = "done",
                                          ![t].outcome = "key_error"]
                /\ UNCHANGED <<heap, plugins>>
         ELSE IF ~RuntimeOk(install.content)
           THEN /\ calls' = [calls EXCEPT ![t].pc = "done",
                                          ![t].outcome = "runtime_error"]
                /\ heap' = aliased
                /\ UNCHANGED plugins
         ELSE /\ calls' = [calls EXCEPT ![t].pc = "put", ![t].p = NewId(plugins)]
              /\ heap' = aliased
              /\ plugins' = New(plugins,
                              InstalledPlugin(r, now,
                                              ManifestConfig(install, calls[t].oauth)))
      /\ UNCHANGED plugin_cache
      /\ UNCHANGED Shared

\* self.plugin_cache[install.name] = p; return p
ObtainPut(t) ==
  /\ calls[t].pc = "put"
  /\ plugin_cache' = DictSet(plugin_cache, heap[calls[t].install].name, calls[t].p)
  /\ calls' = [calls EXCEPT ![t].pc = "done"]
  /\ UNCHANGED <<heap, plugins>>
  /\ UNCHANGED Shared

\* The calls have returned to their callers.
ObtainEnd ==
  /\ \A t \in Threads : calls[t].pc \in {"idle", "done"}
  /\ \E t \in Threads : calls[t].pc = "done"
  /\ calls' = NoCalls
  /\ ret' = Ret("concurrent", "ok", <<>>)
  /\ UNCHANGED <<now, config_profile, heap, plugins, install_cache,
                 plugin_cache, last_installations_request>>

(***************************************************************************)
(* Client.installs: list_installs() of the configured profile, consumed to *)
(* the end; the result is self.install_cache.                              *)
(***************************************************************************)
InstallsStep(op, res, s) ==
  ListInstallsStep(op, "None", Len(NameOrder), res, s)

\* A variant of FindTool that falls back on the first installed Servlet.
FindToolOrFirst(s, name) ==
  LET owns(i) == \E j \in 1..Len(s.heap[s.install_cache[i].v].tools) :
                    s.heap[s.install_cache[i].v].tools[j] = name
      hits == {i \in 1..Len(s.install_cache) : owns(i)}
  IN  IF s.install_cache = <<>> THEN None
      ELSE IF hits = {} THEN s.install_cache[1].v
      ELSE s.install_cache[CHOOSE i \in hits : \A j \in hits : i <= j].v

\* Client.tool(name): the first tool of that name, in the order of
\* install_cache.values(); the result is the Servlet that owns it, or None.
FindTool(s, name) ==
  LET owns(i) == \E j \in 1..Len(s.heap[s.install_cache[i].v].tools) :
                    s.heap[s.install_cache[i].v].tools[j] = name
      hits == {i \in 1..Len(s.install_cache) : owns(i)}
  IN  IF hits = {} THEN None
      ELSE s.install_cache[CHOOSE i \in hits : \A j \in hits : i <= j].v

\* A variant of AddTools that keeps the Tool a name already has.
RECURSIVE AddToolsKeepingFirst(_, _, _, _)
AddToolsKeepingFirst(tools, r, names, k) ==
  IF k = 0 THEN tools
  ELSE LET t == AddToolsKeepingFirst(tools, r, names, k - 1)
       IN  IF DictHas(t, names[k]) THEN t ELSE DictSet(t, names[k], r)

\* for tool in install.tools.values(): tools[tool.name] = tool, for the
\* first k tools of the Servlet r; a Tool is known by its name and servlet.
RECURSIVE AddTools(_, _, _, _)
AddTools(tools, r, names, k) ==
  IF k = 0 THEN tools
  ELSE DictSet(AddTools(tools, r, names, k - 1), names[k], r)

\* Client.tools: the loop over installs.values(), for its first i Servlets.
RECURSIVE CollectTools(_, _)
CollectTools(s, i) ==
  IF i = 0 THEN <<>>
  ELSE LET r == s.install_cache[i].v
       IN  AddTools(CollectTools(s, i - 1), r, s.heap[r].tools,
                    Len(s.heap[r].tools))

\* The extra functions and extra Wasm modules a caller passes.
Extras ==
  {<<"None", "None">>, <<"empty", "None">>, <<"some", "None">>, <<"None", "some">>}

ToolNames == {"t1", "t2", "t3"}

\* plugin.call(tool=..., input=...): the Runtime's result, or its failure.
CallStep(fault, s) ==
  IF s.ret.outcome # "ok" THEN s
  ELSE [s EXCEPT !.ret.outcome = IF fault # "call" THEN "ok" ELSE "call_error"]

(***************************************************************************)
(* Client.call_tool(tool, params, functions=, wasm=) with a tool name.     *)
(***************************************************************************)
CallToolByName(name, x, res, fault, tok) ==
  LET s1 == InstallsStep("call_tool", res, Self)
      found == FindTool(s1, name)
  IN  /\ res.status = 301 => last_installations_request[config_profile] # None
      /\ Commit(
           IF s1.ret.outcome # "ok" THEN s1
           ELSE IF found = None
             THEN [s1 EXCEPT !.ret.outcome = "value_error", !.ret.tool = name]
           ELSE CallStep(fault,
                  PluginStep("call_tool", found, TRUE, x[1], x[2], fault, tok,
                             [s1 EXCEPT !.ret.tool = name])))
      /\ UNCHANGED <<now, config_profile>>

(***************************************************************************)
(* Client.call_tool(tool, ...) with a Tool object: no lookup, the plugin   *)
(* is built from tool.servlet.                                             *)
(***************************************************************************)
CallToolByTool(r, x, fault, tok) ==
  /\ r \in DOMAIN heap
  /\ Commit(CallStep(fault,
              PluginStep("call_tool", r, TRUE, x[1], x[2], fault, tok, Self)))
  /\ UNCHANGED <<now, config_profile>>

(***************************************************************************)
(* Client.tools and Client.tool(name): both read self.installs, which      *)
(* refreshes the install set first.                                        *)
(***************************************************************************)
Tools(res) ==
  LET s1 == InstallsStep("tools", res, Self)
  IN  /\ res.status = 301 => last_installations_request[config_profile] # None
      /\ Commit(IF s1.ret.outcome # "ok" THEN s1
                ELSE [s1 EXCEPT !.ret.tools = CollectTools(s1, Len(s1.install_cache))])
      /\ UNCHANGED <<now, config_profile>>

Tool(name, res) ==
  LET s1 == InstallsStep("tool", res, Self)
  IN  /\ res.status = 301 => last_installations_request[config_profile] # None
      /\ Commit(IF s1.ret.outcome # "ok" THEN s1
                ELSE [s1 EXCEPT !.ret.tool = name,
                                !.ret.install = FindTool(s1, name)])
      /\ UNCHANGED <<now, config_profile>>

(***************************************************************************)
(* Client.clear_cache()                                                    *)
(***************************************************************************)
\* A variant of Cleared that keeps the stored Dates.
ClearedKeepingDates(s) ==
  [s EXCEPT !.install_cache = <<>>,
            !.plugin_cache = <<>>]

Cleared(s) ==
  [s EXCEPT !.last_installations_request = [p \in Profiles |-> None],
            !.install_cache = <<>>,
            !.plugin_cache = <<>>]

ClearCache ==
  /\ Commit([Cleared(Self) EXCEPT !.ret = Ret("clear_cache", "ok", <<>>)])
  /\ UNCHANGED <<now, config_profile>>

(***************************************************************************)
(* Client.set_profile(profile)                                             *)
(***************************************************************************)
SetProfile(profile) ==
  /\ config_profile' = profile
  /\ Commit([(IF profile # config_profile THEN Cleared(Self) ELSE Self)
               EXCEPT !.ret = [Ret("set_profile", "ok", <<>>)
                                 EXCEPT !.changed = (profile # config_profile)]])
  /\ UNCHANGED now

(***************************************************************************)
(* Client.uninstall(servlet, profile) and Client.install(servlet, name=,   *)
(* profile=): the request goes to the named profile, or to the configured  *)
(* one; the caches are cleared only when no profile was named.             *)
(***************************************************************************)
\* A variant of AfterChange that never clears.
AfterChangeKeeping(op, profile, req, s) ==
  [s EXCEPT !.ret = [Ret(op, "ok", <<req>>) EXCEPT !.explicit = (profile # "None")]]

AfterChange(op, profile, req, s) ==
  [(IF profile = "None" THEN Cleared(s) ELSE s)
     EXCEPT !.ret = [Ret(op, "ok", <<req>>) EXCEPT !.explicit = (profile # "None")]]

Failed(op, profile, req, s) ==
  [s EXCEPT !.ret = [Ret(op, "http_error", <<req>>)
                       EXCEPT !.explicit = (profile # "None")]]

Uninstall(profile, http_ok) ==
  /\ Commit(IF http_ok THEN AfterChange("uninstall", profile, "uninstall", Self)
                       ELSE Failed("uninstall", profile, "uninstall", Self))
  /\ UNCHANGED <<now, config_profile>>

Install(profile, http_ok) ==
  /\ Commit(IF http_ok THEN AfterChange("install", profile, "install", Self)
                       ELSE Failed("install", profile, "install", Self))
  /\ UNCHANGED <<now, config_profile>>

\* The Servlets the client refers to: those in install_cache and those the
\* cached plugins were built from.
Referenced ==
  Range(DictValues(install_cache))
  \cup {plugins[p].install : p \in Range(DictValues(plugin_cache))}

\* A sequence without the elements of `seen` and without repetitions.
RECURSIVE Distinct(_, _)
Distinct(q, seen) ==
  IF q = <<>> THEN <<>>
  ELSE IF Head(q) \in seen THEN Distinct(Tail(q), seen)
  ELSE <<Head(q)>> \o Distinct(Tail(q), seen \cup {Head(q)})

\* The elements of a set of Servlets as a sequence, ordered by their fields.
Rank(r) ==
  (IF heap[r].content = "None" THEN 0 ELSE IF heap[r].content = "wasm" THEN 1 ELSE 2)
  + 3 * (CHOOSE i \in 1..Len(NameOrder) : NameOrder[i] = heap[r].name)
  + 3 * (Len(NameOrder) + 1) * (IF heap[r].has_oauth THEN 1 ELSE 0)
  + 6 * (Len(NameOrder) + 1) * (IF heap[r].permissions THEN 1 ELSE 0)

RECURSIVE Sorted(_)
Sorted(ids) ==
  IF ids = {} THEN <<>>
  ELSE LET r == CHOOSE x \in ids : \A y \in ids : Rank(x) <= Rank(y)
       IN  <<r>> \o Sorted(ids \ {r})

\* Position of an element in a sequence without repetitions.
Index(q, e) == CHOOSE i \in 1..Len(q) : q[i] = e

(***************************************************************************)
(* The caller takes the result.  The objects that neither the client nor   *)
(* the caller (held) refers to are dropped; identities are only ever       *)
(* compared for equality, so the live objects are renumbered: Servlets in  *)
(* the order of install_cache, then those of the cached plugins, then the  *)
(* caller's; plugins in the order of plugin_cache.                         *)
(***************************************************************************)
Return(held) ==
  LET cached == DictValues(plugin_cache)
      recs == Distinct(DictValues(install_cache)
                       \o [i \in 1..Len(cached) |-> plugins[cached[i]].install]
                       \o Sorted(held), {})
  IN  /\ ret # NoRet
      /\ held \subseteq DOMAIN heap \ Referenced
      /\ ret' = NoRet
      /\ heap' = [i \in 1..Len(recs) |-> heap[recs[i]]]
      /\ plugins' = [i \in 1..Len(cached) |->
                       [plugins[cached[i]] EXCEPT !.install = Index(recs, @)]]
      /\ install_cache' = [i \in 1..Len(install_cache) |->
                             [install_cache[i] EXCEPT !.v = Index(recs, @)]]
      /\ plugin_cache' = [i \in 1..Len(plugin_cache) |->
                            [plugin_cache[i] EXCEPT !.v = i]]
      /\ UNCHANGED <<now, config_profile, last_installations_request, calls>>

(***************************************************************************)
(* The clock advances.                                                     *)
(***************************************************************************)
Tick(t) ==
  /\ ret = NoRet
  /\ calls = NoCalls
  /\ t > now
  /\ now' = t
  /\ UNCHANGED <<config_profile, heap, plugins, install_cache,
                 plugin_cache, last_installations_request, ret, calls>>

Init ==
  /\ now = 0
  /\ config_profile = "A"
  /\ heap = <<>>
  /\ plugins = <<>>
  /\ install_cache = <<>>
  /\ plugin_cache = <<>>
  /\ last_installations_request = [p \in Profiles |-> None]
  /\ ret = NoRet
  /\ calls = NoCalls

(***************************************************************************)
(* One step: an operation of the client on inputs drawn from the profiles  *)
(* P, the servlet names N the registry lists and the clock readings I, or  *)
(* the return of the operation in progress to a caller that keeps at most  *)
(* H of the Servlets the client let go of.  T are the access tokens the    *)
(* Gateway hands out, X the extras (functions, wasm) the caller passes;    *)
(* with extras cache_ok is false whatever the cache argument, so the       *)
(* caller passes cache=False only without them.                            *)
(***************************************************************************)
Step(P, N, I, H, T, X) ==
  \/ /\ ret = NoRet
     /\ \E profile \in P \cup {"None"}, take \in 1..Cardinality(N),
           res \in Responses(N, "A", Date) \cup Responses(N, "B", Date) :
           /\ res \in Responses(N, FixProfile(profile), Date)
           /\ ListInstalls(profile, take, res)
  \/ /\ ret = NoRet
     /\ \E r \in DOMAIN heap, cache \in BOOLEAN, x \in X,
           fault \in Faults \ {"call"}, tok \in T :
           (cache \/ x = <<"None", "None">>)
             /\ Plugin(r, cache, x[1], x[2], fault, tok)
  \/ /\ ret = NoRet
     /\ \E name \in ToolNames, x \in X,
           res \in Responses(N, config_profile, Date), fault \in Faults,
           tok \in T :
           CallToolByName(name, x, res, fault, tok)
  \/ /\ ret = NoRet
     /\ \E r \in DOMAIN heap, x \in X, fault \in Faults, tok \in T :
           CallToolByTool(r, x, fault, tok)
  \/ ClearCache
  \/ \E profile \in P : SetProfile(profile)
  \/ \E profile \in P \cup {"None"}, http_ok \in BOOLEAN :
        Uninstall(profile, http_ok)
  \/ \E profile \in P \cup {"None"}, http_ok \in BOOLEAN :
        Install(profile, http_ok)
  \/ \E t \in I : Tick(t)
  \/ /\ ret # NoRet
     /\ \E held \in SUBSET (DOMAIN heap \ Referenced) :
           Cardinality(held) <= H /\ Return(held)

(***************************************************************************)
(* Spec: both profiles, one servlet name, the clock around the TTL.        *)
(* SpecInstalls: one profile, both servlet names, a clock that reaches the *)
(* TTL, a caller that keeps no Servlet, two access tokens, all extras.      *)
(* SpecPermissions: both profiles and the servlet name under which one of  *)
(* them installs a servlet whose settings have no permissions.             *)
(* SpecConcurrent: one profile, one servlet name, and two threads that     *)
(* call plugin() between the operations of the sequential caller.          *)
(* SpecTools: one profile and both servlet names, which expose a tool of   *)
(* the same name, with the lookups Client.tools and Client.tool.           *)
(***************************************************************************)
Next == Step(Profiles, {"n1"}, Instants, MaxHeld, {"tok1"}, 
          {<<"None", "None">>, <<"None", "some">>})

NextInstalls == Step({"A"}, Names, {0, TTL}, 0, {"tok1", "tok2"}, Extras)

Spec == Init /\ [][Next]_vars

SpecInstalls == Init /\ [][NextInstalls]_vars

NextPermissions ==
  Step(Profiles, {"n2"}, {0, TTL}, MaxHeld, {"tok1"},
       {<<"None", "None">>, <<"None", "some">>})

SpecPermissions == Init /\ [][NextPermissions]_vars

NextConcurrent ==
  \/ Step({"A"}, {"n1"}, {0, TTL}, 0, {"tok1"}, {<<"None", "None">>})
  \/ \E t \in Threads, r \in DOMAIN heap : ObtainBegin(t, r, "tok1")
  \/ \E t \in Threads : ObtainLookup(t)
  \/ \E t \in Threads : ObtainEvict(t)
  \/ \E t \in Threads : ObtainFetch(t)
  \/ \E t \in Threads : ObtainStore(t)
  \/ \E t \in Threads : ObtainBuild(t)
  \/ \E t \in Threads : ObtainPut(t)
  \/ ObtainEnd

SpecConcurrent == Init /\ [][NextConcurrent]_vars

NextTools ==
  \/ Step({"A"}, Names, {0, TTL}, 0, {"tok1"}, {<<"None", "None">>})
  \/ /\ ret = NoRet
     /\ \E res \in Responses(Names, config_profile, Date) : Tools(res)
  \/ /\ ret = NoRet
     /\ \E name \in ToolNames, res \in Responses(Names, config_profile, Date) :
           Tool(name, res)

SpecTools == Init /\ [][NextTools]_vars

(***************************************************************************)
(* Properties.  A property about the result of an operation is stated on   *)
(* the state in which the operation has returned and the caller has not    *)
(* yet taken the result (ret # NoRet): the objects the operation let go of *)
(* are still in heap and plugins there.                                    *)
(***************************************************************************)
\* The name of the Servlet the operation was given.
RetName == heap[ret.install].name

\* The age of an InstalledPlugin.
Age(p) == now - plugins[p].timestamp

\* The names of the Servlets a list_installs yielded.
ListedNames == {heap[ret.listed[i]].name : i \in 1..Len(ret.listed)}

\* The token of every profile, install_cache and plugin_cache are empty.
AllEmpty ==
  /\ \A p \in Profiles : last_installations_request[p] = None
  /\ install_cache = <<>>
  /\ plugin_cache = <<>>

\* A cacheable plugin() has returned an instance.
Obtained == ret.op = "plugin" /\ ret.cache_ok /\ ret.outcome = "ok"

\* C1: every plugin_cache entry was built from the Servlet that install_cache
\* holds under the same name, and a cacheable plugin(install) returns an
\* instance built from install.  (The code does not keep this.)
C1_EntryBuiltFromCurrentRecord ==
  /\ \A i \in 1..Len(plugin_cache) :
        plugins[plugin_cache[i].v].install = DictGet(install_cache, plugin_cache[i].k)
  /\ Obtained => plugins[ret.value].install = ret.install

\* C2: a cacheable plugin() that finds an entry younger than the TTL issues
\* no Gateway request, also for a Servlet with has_oauth.  (The code does
\* not keep this.)
C2_HitIssuesNoRequest ==
  (ret.op = "plugin" /\ ret.cache_ok /\ ret.cached # None /\ Age(ret.cached) < TTL)
    => ret.net = <<>>

\* C3: a cacheable plugin() that returns leaves the returned instance in
\* plugin_cache under the Servlet's name, and one that finds there an
\* instance younger than the TTL returns that very instance and leaves it
\* there: of two such calls within the TTL with no refresh in between, the
\* second returns the instance of the first.
C3_SameInstanceWithinTTL ==
  Obtained =>
    /\ DictGet(plugin_cache, RetName) = ret.value
    /\ (ret.cached # None /\ Age(ret.cached) < TTL) => ret.value = ret.cached

C3_Witness ==
  /\ Obtained
  /\ ret.cached # None
  /\ Age(ret.cached) = TTL - 1
  /\ ret.value = ret.cached

\* C4: no cacheable plugin() or call_tool() uses an instance whose age is at
\* or beyond the TTL; a plugin() that finds such an entry deletes it, and if
\* it returns, it returns a new instance created now and leaves that one in
\* plugin_cache.
C4_ExpiredNeverReturned ==
  /\ (ret.op \in {"plugin", "call_tool"} /\ ret.cache_ok /\ ret.value # None)
       => Age(ret.value) < TTL
  /\ (ret.op = "plugin" /\ ret.cache_ok /\ ret.cached # None /\ Age(ret.cached) >= TTL)
       => /\ ret.cached \notin Range(DictValues(plugin_cache))
          /\ ret.outcome = "ok" =>
               /\ ret.value # ret.cached
               /\ plugins[ret.value].timestamp = now
               /\ DictGet(plugin_cache, RetName) = ret.value

C4_Witness ==
  /\ Obtained
  /\ ret.cached # None
  /\ Age(ret.cached) = TTL
  /\ ret.value # ret.cached

\* C5: after a list_installs that got a list and ran to its end, a name that
\* the list does not contain is neither in install_cache nor in
\* plugin_cache.  (The code does not keep this.)
C5_RefreshIsSnapshot ==
  (ret.op = "list_installs" /\ ret.status = 200 /\ ret.complete)
    => \A n \in Names \ ListedNames :
          ~DictHas(install_cache, n) /\ ~DictHas(plugin_cache, n)

\* C6: after a list_installs that got a list, every Servlet it yielded is
\* the one install_cache holds under its name and plugin_cache has no entry
\* under that name, whatever the age of the entry it had.
C6_ReplacedRecordEvictsPlugin ==
  (ret.op = "list_installs" /\ ret.status = 200)
    => \A i \in 1..Len(ret.listed) :
          /\ DictGet(install_cache, heap[ret.listed[i]].name) = ret.listed[i]
          /\ ~DictHas(plugin_cache, heap[ret.listed[i]].name)

\* A list has replaced a Servlet whose plugin, younger than the TTL, is no
\* longer cached.
C6_Witness ==
  /\ ret.op = "list_installs"
  /\ ret.status = 200
  /\ \E p \in DOMAIN plugins :
        /\ p \notin Range(DictValues(plugin_cache))
        /\ heap[plugins[p].install].name \in ListedNames
        /\ Age(p) < TTL

\* C7: a list_installs answered 301 issues the one conditional list request,
\* yields the Servlets of install_cache as they are, and changes neither
\* install_cache nor the stored Dates nor plugin_cache nor any object.
C7_NotModifiedChangesNothing ==
  [][(ret'.op = "list_installs" /\ ret'.status = 301)
       => /\ ret'.outcome = "ok"
          /\ ret'.net = <<"list_cond">>
          /\ \E n \in 0..Len(install_cache) :
                ret'.listed = SubSeq(DictValues(install_cache), 1, n)
          /\ ret'.complete => ret'.listed = DictValues(install_cache)
          /\ UNCHANGED <<heap, plugins, install_cache, plugin_cache,
                         last_installations_request>>]_vars

C7_Witness ==
  /\ ret.op = "list_installs"
  /\ ret.status = 301
  /\ ret.complete
  /\ Len(ret.listed) = 2
  /\ plugin_cache # <<>>

\* C8: a list_installs answered 301 while install_cache is empty issues a
\* second list request, without the condition.  (The code does not.)
C8_NotModifiedOnEmptyCacheRefetches ==
  (ret.op = "list_installs" /\ ret.status = 301 /\ install_cache = <<>>)
    => ret.net = <<"list_cond", "list">>

C10_ClearThenFullRefresh ==
  [][/\ ret'.op = "clear_cache" => AllEmpty'
     /\ (ret'.op = "list_installs" /\ AllEmpty)
          => /\ ret'.net = <<"list">>
             /\ ret'.status # 301
             /\ (ret'.status = 200 /\ ret'.complete)
                  => DictValues(install_cache') = ret'.listed]_vars

\* A list_installs from the cleared state has repopulated install_cache: the
\* caller still holds a Servlet from before the clearing, and no Date but
\* the one just stored exists.
C10_Witness ==
  /\ ret.op = "list_installs"
  /\ ret.net = <<"list">>
  /\ ret.status = 200
  /\ ret.listed # <<>>
  /\ DictValues(install_cache) = ret.listed
  /\ Cardinality({p \in Profiles : last_installations_request[p] # None}) = 1
  /\ \E r \in DOMAIN heap : r \notin Range(ret.listed)

\* C11: a plugin() given a non-empty list of functions or of wasm modules
\* does not look into plugin_cache and leaves it as it is, whether it holds
\* no entry, a fresh one or an expired one under the name; the instance it
\* returns is a new one that is not cached.
C11_ExtrasBypassCache ==
  [][(ret'.op = "plugin" /\ (ret'.functions = "some" \/ ret'.wasm = "some"))
       => /\ plugin_cache' = plugin_cache
          /\ ret'.cached = None
          /\ ret'.value # None =>
               /\ ret'.value \notin DOMAIN plugins
               /\ ret'.value \notin Range(DictValues(plugin_cache'))]_vars

\* A plugin() with extra wasm modules has built an instance while an expired
\* entry stays cached under the name.
C11_Witness ==
  /\ ret.op = "plugin"
  /\ ret.wasm = "some"
  /\ ret.outcome = "ok"
  /\ DictHas(plugin_cache, RetName)
  /\ Age(DictGet(plugin_cache, RetName)) >= TTL
  /\ ret.value # DictGet(plugin_cache, RetName)

\* The errors that end plugin() before it has built an instance.
BuildErrors == {"http_error", "key_error", "runtime_error"}

C13_ContentErrorPropagates ==
  /\ \A r \in DOMAIN heap : heap[r].content \in {"None", "wasm"}
  /\ (ret.op = "plugin" /\ heap[ret.install].content = "errbody"
        /\ "content" \in Range(ret.net))
       => ret.outcome = "http_error"

\* C14: an operation never changes the content of a Servlet that has one,
\* and a plugin() or call_tool() on such a Servlet issues no content
\* request, cacheable or not, also when it rebuilds after an expiry.
C14_ContentFetchedOnce ==
  [][ret' # NoRet =>
       \A r \in DOMAIN heap :
          heap[r].content # "None" =>
            /\ heap'[r].content = heap[r].content
            /\ ret'.install = r => "content" \notin Range(ret'.net)]_vars

\* A plugin() has replaced an expired instance without a content request.
C14_Witness ==
  /\ Obtained
  /\ ret.cached # None
  /\ ret.value # ret.cached
  /\ heap[ret.install].content = "wasm"
  /\ "content" \notin Range(ret.net)

\* The number of content requests among the requests of an operation.
ContentRequests(net) == Cardinality({i \in 1..Len(net) : net[i] = "content"})

\* C15: a cacheable call_tool() by name that succeeds issues at most one
\* content request and leaves the instance it used in plugin_cache, its
\* Servlet holding the content; one whose refresh is answered 301 (nothing
\* changed on the server) and that finds that instance there, younger than
\* the TTL, uses it, builds no instance and issues no content request.  So
\* two such calls in succession build one instance and fetch content once.
C15_SecondCallReusesInstance ==
  [][(ret'.op = "call_tool" /\ ret'.tool # "None" /\ ret'.cache_ok
        /\ ret'.outcome = "ok")
       => LET n == heap'[ret'.install].name
              P == DictGet(plugin_cache, n)
          IN  /\ DictGet(plugin_cache', n) = ret'.value
              /\ heap'[ret'.install].content = "wasm"
              /\ ContentRequests(ret'.net) <= 1
              /\ (ret'.status = 301 /\ P # None /\ now - plugins[P].timestamp < TTL)
                   => /\ ret'.value = P
                      /\ plugins' = plugins
                      /\ ContentRequests(ret'.net) = 0]_vars

\* A call_tool() by name, its refresh answered 301, has used the cached
\* instance without a content request.
C15_Witness ==
  /\ ret.op = "call_tool"
  /\ ret.tool = "t2"
  /\ ret.status = 301
  /\ ret.outcome = "ok"
  /\ ret.cached # None
  /\ ret.value = ret.cached
  /\ ContentRequests(ret.net) = 0

\* plugin() or call_tool() has built an instance (it did not take it from
\* plugin_cache).
Built ==
  /\ ret.op \in {"plugin", "call_tool"}
  /\ ret.value # None
  /\ ret.value # ret.cached

\* C16: an instance built for a Servlet with has_oauth has, under
\* config_name, the access token fetched by the same call, whatever
\* settings.config had there; for a Servlet without has_oauth no OAuth
\* request is made and an instance built for it has what settings.config
\* has, nothing when settings has no config.
C16_ManifestConfig ==
  /\ Built =>
       IF heap[ret.install].has_oauth
         THEN /\ "oauth" \in Range(ret.net)
              /\ ret.token # "None"
              /\ plugins[ret.value].config = ret.token
         ELSE plugins[ret.value].config =
                IF heap[ret.install].config = "None" THEN "unset"
                ELSE heap[ret.install].config
  /\ (ret.op \in {"plugin", "call_tool"} /\ ret.install # None
        /\ ~heap[ret.install].has_oauth)
       => "oauth" \notin Range(ret.net)

\* An instance built with the token tok1 has expired and its replacement
\* holds tok2, the token of the call that built it.
C16_Witness ==
  /\ Built
  /\ ret.cached # None
  /\ plugins[ret.cached].config = "tok1"
  /\ ret.token = "tok2"
  /\ plugins[ret.value].config = "tok2"

\* C17: plugin() on a Servlet whose settings have no permissions always ends
\* in the error of the missing key: it returns no instance and no instance
\* built from that Servlet is cached.  (The code does not keep this.)
C17_MissingPermissionsFail ==
  (ret.op = "plugin" /\ ~heap[ret.install].permissions)
    => /\ ret.outcome = "key_error"
       /\ ret.value = None
       /\ \A i \in 1..Len(plugin_cache) :
             plugins[plugin_cache[i].v].install # ret.install

\* C18: a call_tool() with a name that no tool of a Servlet in install_cache
\* has after the refresh ends in the error that names the tool, having
\* issued the list request only, built no instance and changed plugin_cache
\* only as the refresh did (the entries of the listed names are gone).
C18_UnknownToolNotFound ==
  [][(/\ ret'.op = "call_tool"
      /\ ret'.tool # "None"
      /\ \A i \in 1..Len(install_cache') :
            ret'.tool \notin Range(heap'[install_cache'[i].v].tools))
       => /\ ret'.outcome = "value_error"
          /\ ret'.net \in {<<"list">>, <<"list_cond">>}
          /\ ret'.install = None
          /\ ret'.value = None
          /\ plugins' = plugins
          /\ plugin_cache' =
               IF ret'.status = 301 THEN plugin_cache
               ELSE SelectSeq(plugin_cache,
                      LAMBDA e : \A i \in 1..Len(ret'.listed) :
                                    heap'[ret'.listed[i]].name # e.k)]_vars

\* call_tool("t3") has ended in the error while Servlets are installed and a
\* plugin is cached.
C18_Witness ==
  /\ ret.op = "call_tool"
  /\ ret.tool = "t3"
  /\ ret.outcome = "value_error"
  /\ install_cache # <<>>
  /\ plugin_cache # <<>>

\* The Servlet r is what the registry installs under its name in a profile.
ListedFor(profile, r) ==
  /\ heap[r].has_oauth = Catalog(profile, heap[r].name).has_client
  /\ heap[r].permissions = Catalog(profile, heap[r].name).permissions
  /\ heap[r].tools = Catalog(profile, heap[r].name).tools

\* C19: a list_installs for a profile yields only Servlets that were listed
\* for that profile, also after a list_installs for another profile and
\* also when it is answered 301.  (The code does not keep this.)
C19_InstallCachePerProfile ==
  ret.op = "list_installs"
    => \A i \in 1..Len(ret.listed) : ListedFor(ret.profile, ret.listed[i])

\* C20: when two threads have run a cacheable plugin() for the same name
\* concurrently, and the content they used is one the Gateway served with
\* success, both have returned an instance without an error and
\* plugin_cache holds one of the two under the name.  (The code does not
\* keep this: both threads can find the same expired entry, and the second
\* del of its key raises KeyError.)
C20_ConcurrentObtainsSucceed ==
  (/\ \A t \in Threads : /\ calls[t].pc = "done"
                         /\ heap[calls[t].install].content = ContentBody(TRUE)
   /\ heap[calls[1].install].name = heap[calls[2].install].name)
    => /\ \A t \in Threads : calls[t].outcome = "ok" /\ calls[t].p # None
       /\ DictGet(plugin_cache, heap[calls[1].install].name)
            \in {calls[1].p, calls[2].p}

\* C21: plugin() reads and writes plugin_cache exactly when the cache
\* argument is true and both functions and wasm are empty (None or an empty
\* list): such a call that returns leaves the instance it returns under the
\* Servlet's name, and any other call is not cacheable.  (The code does not
\* keep this: an empty list is not None.)
C21_EmptyExtrasAreCacheable ==
  ret.op = "plugin" =>
    /\ ret.cache_ok = (/\ ret.cache
                       /\ ret.functions \in {"None", "empty"}
                       /\ ret.wasm \in {"None", "empty"})
    /\ (ret.cache /\ ret.functions \in {"None", "empty"}
          /\ ret.wasm \in {"None", "empty"} /\ ret.outcome = "ok")
         => DictGet(plugin_cache, RetName) = ret.value

\* C22: the Date of a list response is stored for a profile only together
\* with all the Servlets of that response: when a list_installs that got a
\* list has returned to its caller with the Date stored, the generator ran
\* through the whole list and install_cache holds every Servlet it yielded.
\* (The code does not keep this: the Date is stored before the first
\* Servlet is.)
C22_TokenStoredWithAllRecords ==
  (/\ ret.op = "list_installs"
   /\ ret.status = 200
   /\ last_installations_request[ret.profile] = Date)
    => /\ ret.complete
       /\ \A i \in 1..Len(ret.listed) :
             DictGet(install_cache, heap[ret.listed[i]].name) = ret.listed[i]

\* C23: plugin() leaves the settings of the Servlet as the list response
\* gave them: whatever plugin() and call_tool() calls were made, every
\* Servlet has under config_name of settings.config what the registry
\* installed there, never an access token.  (The code does not keep this:
\* the manifest's config is the Servlet's own mapping.)
C23_SettingsUnchanged ==
  \A r \in DOMAIN heap :
     heap[r].config \in {Catalog(p, heap[r].name).config : p \in Profiles}

\* The positions in install_cache of the Servlets that have a tool of the name.
Owners(name) ==
  {i \in 1..Len(install_cache) :
     \E j \in 1..Len(heap[install_cache[i].v].tools) :
        heap[install_cache[i].v].tools[j] = name}

\* C24 as stated: for every tool name, tool(name) returns the Tool (name and
\* owning Servlet) that the dict of tools holds under the name, also when
\* two installed Servlets have a tool of that name.
C24_LookupsAgree ==
  (ret.op = "tools" /\ ret.outcome = "ok")
    => \A name \in ToolNames : FindTool(Self, name) = DictGet(ret.tools, name)

\* C24, amended: tools holds under a name the Tool of the last Servlet of
\* install_cache that has one of that name, tool(name) returns the Tool of
\* the first (None when there is none), and so the two agree on every name
\* that one installed Servlet has.
C24_FirstAndLastOwner ==
  /\ (ret.op = "tools" /\ ret.outcome = "ok")
       => \A name \in ToolNames :
             /\ DictGet(ret.tools, name) =
                  IF Owners(name) = {} THEN None
                  ELSE install_cache[CHOOSE i \in Owners(name) :
                                       \A j \in Owners(name) : j <= i].v
             /\ Cardinality(Owners(name)) <= 1
                  => FindTool(Self, name) = DictGet(ret.tools, name)
  /\ (ret.op = "tool" /\ ret.outcome = "ok")
       => ret.install =
            IF Owners(ret.tool) = {} THEN None
            ELSE install_cache[CHOOSE i \in Owners(ret.tool) :
                                 \A j \in Owners(ret.tool) : i <= j].v

\* tools has returned while two installed Servlets have a tool named t2 and
\* one has a tool named t1.
C24_Witness ==
  /\ ret.op = "tools"
  /\ ret.outcome = "ok"
  /\ Cardinality(Owners("t2")) = 2
  /\ Cardinality(Owners("t1")) = 1
  /\ DictGet(ret.tools, "t2") = install_cache[2].v
  /\ DictGet(ret.tools, "t1") = install_cache[1].v

====
